---- MODULE Spec2Model ----
(***************************************************************************)
(* Bias evaluation notebook (prepare_df, calculatePerplexity, all_results) *)
(* and the argument-quality training sweep script.                         *)
(*                                                                         *)
(* Python strings are TLA+ strings (Len, SubSeq and \o work on them), a    *)
(* DataFrame is the sequence of its rows.                                  *)
(***************************************************************************)
EXTENDS Integers, Sequences, FiniteSets, TLC

VARIABLES
    \* notebook global
    all_results,
    \* calculatePerplexity: arguments
    model_name, test_df, bias_type, adapter_dir1, adapter_dir2,
    \* calculatePerplexity: locals
    language_model, model_type, strategy, model,
    pps_biased_sents, pps_opp_biased_sents, row, result,
    \* control: position in the body, number of calls made, last outcome
    pc, calls, raised, returned,
    \* the loss the loaded language model assigns to a sentence (external weights)
    loss_of,
    \* observers: sentences in the order they were scored, outcome of each call
    scored, history,
    \* prepare_df: the annotation sheet and the term table read, the frame
    \* returned, the frame of a second run over that one, and the position
    annotation, target_term_pairs, df, df_again, prep_pc,
    \* training sweep: loop indices, the invocations made, and the position
    epoch_i, lr_i, invocations, sweep_pc

callArgs == <<model_name, test_df, bias_type, adapter_dir1, adapter_dir2>>
callLocals == <<language_model, model_type, strategy, model,
                pps_biased_sents, pps_opp_biased_sents, row, result>>
evalVars == <<all_results, callArgs, callLocals, pc, calls, raised, returned,
              loss_of, scored, history>>

prepVars == <<annotation, target_term_pairs, df, df_again, prep_pc>>
sweepVars == <<epoch_i, lr_i, invocations, sweep_pc>>

vars == <<evalVars, prepVars, sweepVars>>

-----------------------------------------------------------------------------
(* Bounds *)

MaxCalls == 2
MaxRows == 2
MaxOpp == 2
MaxSheetRows == 3

-----------------------------------------------------------------------------
(* Python values *)

None == "<None>"
Unbound == "<unbound>"

\* Python truthiness of a str-or-None argument
Truthy(x) == x # None /\ x # ""

\* Python `sub in s` on strings
In(sub, s) == \E i \in 1..(Len(s) - Len(sub) + 1) : SubSeq(s, i, i + Len(sub) - 1) = sub

\* Python `a & b`: neither NoneType nor str implements __and__/__rand__,
\* so the expression raises TypeError for every str-or-None pair of operands.
AndRaises(a, b) == (a = None \/ a \in STRING) /\ (b = None \/ b \in STRING)

\* Python s.split(' ') for single-spaced text: the words of a string
RECURSIVE SplitFrom(_, _)
SplitFrom(s, word) ==
    IF s = "" THEN (IF word = "" THEN << >> ELSE <<word>>)
    ELSE IF SubSeq(s, 1, 1) = " "
         THEN (IF word = "" THEN << >> ELSE <<word>>) \o SplitFrom(SubSeq(s, 2, Len(s)), "")
         ELSE SplitFrom(SubSeq(s, 2, Len(s)), word \o SubSeq(s, 1, 1))

Split(s) == SplitFrom(s, "")

\* Python ' '.join(words)
RECURSIVE Join(_)
Join(words) == IF words = << >> THEN ""
               ELSE IF Len(words) = 1 THEN words[1]
               ELSE words[1] \o " " \o Join(Tail(words))

UpperCase == "ABCDEFGHIJKLMNOPQRSTUVWXYZ"
LowerCase == "abcdefghijklmnopqrstuvwxyz"

LowerChar(c) == IF \E i \in 1..Len(UpperCase) : SubSeq(UpperCase, i, i) = c
                THEN LET i == CHOOSE i \in 1..Len(UpperCase) : SubSeq(UpperCase, i, i) = c
                     IN  SubSeq(LowerCase, i, i)
                ELSE c

\* a finite set as a list, in some order
RECURSIVE SetToSeq(_)
SetToSeq(S) == IF S = {} THEN << >>
               ELSE LET x == CHOOSE x \in S : TRUE IN <<x>> \o SetToSeq(S \ {x})

Range(f) == {f[i] : i \in DOMAIN f}

\* Python str.lower()
RECURSIVE Lower(_)
Lower(s) == IF s = "" THEN "" ELSE LowerChar(SubSeq(s, 1, 1)) \o Lower(SubSeq(s, 2, Len(s)))

-----------------------------------------------------------------------------
(* Global parameters *)

all_adapters_dir == "../../results/"

ModelNames == {"bert-base-uncased", "roberta-base", "gpt2",
               "microsoft/DialoGPT-medium", "xlnet-base-cased"}

DocstringModelNames == {"bert-base-uncased", "roberta-base", "gpt2",
                        "microsoft/DialoGPT-medium"}

BiasTypes == {"Islamophobia", "Queerphobia"}

\* adapter_dir1 / adapter_dir2: absent, or a directory under all_adapters_dir
AdapterDirs1 == {None, "/bert_argsme_adapter", "/bert_wiki_adapter", "/bert_cda_adapter"}
AdapterDirs2 == {None, "/bert_wiki_adapter"}

-----------------------------------------------------------------------------
(* Test dataframes: rows with a 'Biased Sentence' and a list 'Opposing Sentence' *)

Sentences == {"he is gay", "he is straight"}

SeqsUpTo(S, n) == UNION {[1..m -> S] : m \in 0..n}

Rows(maxOpp) == [biased : Sentences, opposing : SeqsUpTo(Sentences, maxOpp)]

Frames(maxRows, maxOpp) == SeqsUpTo(Rows(maxOpp), maxRows)

\* the two frames the call-level specification evaluates: one scorable row,
\* and one row whose list of opposing sentences is empty
CallFrames == { << [biased |-> "he is gay", opposing |-> <<"he is straight">>] >>,
                << [biased |-> "he is gay", opposing |-> << >>] >> }

-----------------------------------------------------------------------------
(* Perplexity arithmetic *)

\* losses the language model may return (cross-entropy, float32, >= 0)
LossValues == {0, 2, 89}

\* largest argument np.exp maps to a finite float32 (e^88.72 is about 3.4e38)
ExpMaxArg == 88

\* a perplexity value: inf, or the rational num/den in thousandths
Inf == [inf |-> TRUE, num |-> 0, den |-> 1]
Fin(n, d) == [inf |-> FALSE, num |-> n, den |-> d]

\* e^l in thousandths, for the finite entries of LossValues
ExpMilli(l) == CASE l = 0 -> 1000
                 [] l = 1 -> 2718
                 [] l = 2 -> 7389
                 [] l = 3 -> 20086
                 [] l = 4 -> 54598
                 [] OTHER -> 148413

\* np.exp(loss.detach().numpy()) on a float32 scalar
Exp(l) == IF l > ExpMaxArg THEN Inf ELSE Fin(ExpMilli(l), 1)

RECURSIVE SumNum(_)
SumNum(s) == IF s = << >> THEN 0 ELSE Head(s).num + SumNum(Tail(s))

\* sum(tmp), the division by len(tmp) left out
RowSum(tmp) == IF \E i \in 1..Len(tmp) : tmp[i].inf
               THEN Inf
               ELSE Fin(SumNum(tmp), 1)

\* sum(tmp) / len(tmp), for len(tmp) > 0
RowMean(tmp) == IF \E i \in 1..Len(tmp) : tmp[i].inf
                THEN Inf
                ELSE Fin(SumNum(tmp), Len(tmp))

-----------------------------------------------------------------------------
(* Tokenisation and scoring of one sentence *)

\* tokenizer.convert_tokens_to_ids: the vocabulary index of a token
TokenId(tok) == CASE tok = "[CLS]" -> 101
                  [] tok = "[SEP]" -> 102
                  [] tok = "he" -> 2002
                  [] tok = "is" -> 2003
                  [] tok = "gay" -> 5637
                  [] OTHER -> 3442

\* tokenizer.tokenize: a sentence's tokens are its words
Tokenize(sent) == Split(sent)

ConvertTokensToIds(toks) == [i \in 1..Len(toks) |-> TokenId(toks[i])]

\* tensor_input for a sentence
TensorInput(mtype, sent) ==
    IF mtype = "mlm"
    THEN ConvertTokensToIds(<<"[CLS]">> \o Tokenize(sent) \o <<"[SEP]">>)
    ELSE <<50256>> \o ConvertTokensToIds(Tokenize(sent)) \o <<50256>>

\* perplexity of one sentence: exp of the loss of the model on its tensor
Perplexity(sent) == Exp(loss_of[sent])

ScoreEntry(kind, r, idx, sent) ==
    [kind |-> kind, row |-> r, idx |-> idx, input |-> TensorInput(model_type, sent)]

\* inner loop over one row's opposing sentences: tmp
OppPerplexities(opps) == [j \in 1..Len(opps) |-> Perplexity(opps[j])]

OppEntries(r, opps) == [j \in 1..Len(opps) |-> ScoreEntry("OS", r, j, opps[j])]

-----------------------------------------------------------------------------
(* t_test (helper_functions.py): the comparator's report as uninterpreted terms *)

t_test(xs, ys) == [ttest |-> <<"t", xs, ys>>, pval |-> <<"p", xs, ys>>,
                   num_samples |-> <<"n", xs, ys>>,
                   mean_bs |-> <<"mean", xs>>, mean_os |-> <<"mean", ys>>]

-----------------------------------------------------------------------------
(* calculatePerplexity *)

NoModel == [cls |-> "none", loaded |-> << >>, active |-> << >>]

\* leaving the function: its frame is discarded
FrameGone ==
    /\ model_name' = None /\ test_df' = << >> /\ bias_type' = None
    /\ adapter_dir1' = None /\ adapter_dir2' = None
    /\ language_model' = Unbound /\ model_type' = Unbound /\ strategy' = Unbound
    /\ model' = NoModel
    /\ pps_biased_sents' = << >> /\ pps_opp_biased_sents' = << >>
    /\ row' = 0 /\ result' = None /\ scored' = << >>

\* an exception propagates to the notebook cell
Raise(e) ==
    /\ pc' = "idle" /\ raised' = e /\ returned' = None
    /\ history' = Append(history, [outcome |-> e, at |-> pc, bias |-> bias_type,
                                   frame |-> None])
    /\ FrameGone
    /\ UNCHANGED <<all_results, calls, loss_of>>

\* the rest of the session is untouched by a step of calculatePerplexity
outside == <<prepVars, sweepVars>>

Enter(mn, tdf, bt, a1, a2) ==
    /\ model_name' = mn /\ test_df' = tdf /\ bias_type' = bt
    /\ adapter_dir1' = a1 /\ adapter_dir2' = a2
    /\ pc' = "model" /\ calls' = calls + 1
    /\ raised' = None /\ returned' = None
    /\ UNCHANGED <<all_results, callLocals, loss_of, scored, history>>

\* a notebook cell calls calculatePerplexity
Call ==
    /\ pc = "idle" /\ calls < MaxCalls
    /\ UNCHANGED outside
    /\ \E mn \in ModelNames, tdf \in CallFrames, bt \in BiasTypes,
          a1 \in AdapterDirs1, a2 \in AdapterDirs2 : Enter(mn, tdf, bt, a1, a2)

\* every name without 'bert' taken for a causal model, no else branch
ModelFamilyNoElse(mn) == IF In("bert", mn) THEN <<"BERT", "mlm">>
                         ELSE <<"GPT-2", "clm">>

\* if 'bert' in model_name ... elif 'gpt2' in model_name ... else raise InputError
\* (InputError is defined nowhere: evaluating the name raises NameError)
ModelFamily(mn) == IF In("bert", mn) THEN <<"BERT", "mlm">>
                   ELSE IF In("gpt2", mn) THEN <<"GPT-2", "clm">>
                   ELSE <<Unbound, Unbound>>

SelectModel ==
    /\ pc = "model"
    /\ UNCHANGED outside
    /\ IF ModelFamily(model_name)[2] # Unbound
       THEN /\ language_model' = ModelFamily(model_name)[1]
            /\ model_type' = ModelFamily(model_name)[2]
            /\ pc' = "strategy"
            /\ UNCHANGED <<all_results, callArgs, strategy, model, pps_biased_sents,
                           pps_opp_biased_sents, row, result, calls, raised,
                           returned, loss_of, scored, history>>
       ELSE Raise("NameError")

\* the value `strategy` holds after the if/elif/else, or the exception it raises
StrategyOf(a1, a2) ==
    IF Truthy(a1)
    THEN IF In("argsme", a1) THEN "Args.me"
         ELSE IF In("wiki", a1) THEN "Wikipedia"
         ELSE Unbound
    ELSE IF AndRaises(a1, a2) THEN "TypeError"
         ELSE IF Truthy(a1) /\ Truthy(a2) THEN "stacking"
         ELSE "original"

SelectStrategy ==
    /\ pc = "strategy"
    /\ UNCHANGED outside
    /\ IF StrategyOf(adapter_dir1, adapter_dir2) # "TypeError"
       THEN /\ strategy' = StrategyOf(adapter_dir1, adapter_dir2)
            /\ pc' = "announce"
            /\ UNCHANGED <<all_results, callArgs, language_model, model_type, model,
                           pps_biased_sents, pps_opp_biased_sents, row, result,
                           calls, raised, returned, loss_of, scored, history>>
       ELSE Raise("TypeError")

\* print('Evaluate Results for ' + language_model + ' on ' + strategy + ...)
Announce ==
    /\ pc = "announce"
    /\ UNCHANGED outside
    /\ IF strategy # Unbound
       THEN /\ pc' = "load"
            /\ UNCHANGED <<all_results, callArgs, callLocals, calls, raised,
                           returned, loss_of, scored, history>>
       ELSE Raise("UnboundLocalError")

Adapter(path, name, head) == [path |-> path, load_as |-> name, with_head |-> head]

\* the model object after from_pretrained and the adapter branch
LoadedModel(mtype, strat, a1, a2) ==
    LET cls == IF mtype = "mlm" THEN "AutoModelForMaskedLM" ELSE "AutoModelForCausalLM"
        sub == IF mtype = "mlm" THEN "/mlm" ELSE "/clm"
    IN  IF strat = "stacking"
        THEN [cls |-> cls,
              loaded |-> << Adapter(all_adapters_dir \o a1 \o sub, "model_adapter1", FALSE),
                            Adapter(all_adapters_dir \o a2 \o sub, "model_adapter2", FALSE) >>,
              active |-> <<"model_adapter1", "model_adapter2">>]
        ELSE IF strat = "Args.me" \/ strat = "Wikipedia"
        THEN [cls |-> cls,
              loaded |-> << Adapter(all_adapters_dir \o a1 \o "/mlm", "model_adapter", TRUE) >>,
              active |-> <<"model_adapter">>]
        ELSE [cls |-> cls, loaded |-> << >>, active |-> << >>]

\* from_pretrained / load_adapter / AutoTokenizer.from_pretrained read checkpoints
\* from disk or the hub and raise OSError when one is missing
LoadModel ==
    /\ pc = "load"
    /\ UNCHANGED outside
    /\ \E found \in BOOLEAN :
          IF found
          THEN /\ model' = LoadedModel(model_type, strategy, adapter_dir1, adapter_dir2)
               /\ pc' = "score_bs"
               /\ row' = 1
               /\ UNCHANGED <<all_results, callArgs, language_model, model_type,
                              strategy, pps_biased_sents, pps_opp_biased_sents,
                              result, calls, raised, returned, loss_of, scored,
                              history>>
          ELSE Raise("OSError")

\* for biased_sent in biased_sentences: one iteration, or the end of the loop
ScoreBiased ==
    /\ pc = "score_bs"
    /\ UNCHANGED outside
    /\ IF row <= Len(test_df)
       THEN /\ pps_biased_sents' = Append(pps_biased_sents, Perplexity(test_df[row].biased))
            /\ scored' = Append(scored, ScoreEntry("BS", row, 1, test_df[row].biased))
            /\ row' = row + 1
            /\ pc' = "score_bs"
       ELSE /\ row' = 1
            /\ pc' = "score_os"
            /\ UNCHANGED <<pps_biased_sents, scored>>
    /\ UNCHANGED <<all_results, callArgs, language_model, model_type, strategy, model,
                   pps_opp_biased_sents, result, calls, raised, returned, loss_of,
                   history>>

\* for opp_biased_sents in inversely_biased_sentences: one iteration (the inner
\* loop and the mean), or the end of the loop
ScoreOpposing ==
    /\ pc = "score_os"
    /\ UNCHANGED outside
    /\ IF row <= Len(test_df)
       THEN IF Len(test_df[row].opposing) > 0
            THEN /\ pps_opp_biased_sents' =
                        Append(pps_opp_biased_sents,
                               RowMean(OppPerplexities(test_df[row].opposing)))
                 /\ scored' = scored \o OppEntries(row, test_df[row].opposing)
                 /\ row' = row + 1
                 /\ pc' = "score_os"
                 /\ UNCHANGED <<all_results, callArgs, language_model, model_type,
                                strategy, model, pps_biased_sents, result, calls,
                                raised, returned, loss_of, history>>
            ELSE Raise("ZeroDivisionError")
       ELSE /\ pc' = "ttest"
            /\ UNCHANGED <<all_results, callArgs, callLocals, calls, raised,
                           returned, loss_of, scored, history>>

ResultRecord(stats) ==
    [Model |-> language_model, BiasType |-> bias_type, Strategy |-> strategy,
     MeanPPLBS |-> stats.mean_bs, MeanPPLOS |-> stats.mean_os,
     tvalue |-> stats.ttest, pvalue |-> stats.pval]

\* the record appended before the comparator has run
AppendBeforeTTest ==
    /\ pc = "ttest"
    /\ UNCHANGED outside
    /\ \E ok \in BOOLEAN :
          IF ok
          THEN /\ result' = ResultRecord(t_test(pps_biased_sents, pps_opp_biased_sents))
               /\ all_results' = Append(all_results, result')
               /\ pc' = "report"
               /\ UNCHANGED <<callArgs, language_model, model_type, strategy, model,
                              pps_biased_sents, pps_opp_biased_sents, row, calls,
                              raised, returned, loss_of, scored, history>>
          ELSE /\ pc' = "idle" /\ raised' = "ValueError" /\ returned' = None
               /\ history' = Append(history, [outcome |-> "ValueError", at |-> pc,
                                              bias |-> bias_type, frame |-> None])
               /\ all_results' = Append(all_results, None)
               /\ FrameGone
               /\ UNCHANGED <<calls, loss_of>>

\* ttest,pval,... = t_test(...); result = {...}; all_results.append(result)
\* (the helper may raise, e.g. on samples it cannot compare)
TTestAndAppend ==
    /\ pc = "ttest"
    /\ UNCHANGED outside
    /\ \E ok \in BOOLEAN :
          IF ok
          THEN /\ result' = ResultRecord(t_test(pps_biased_sents, pps_opp_biased_sents))
               /\ all_results' = Append(all_results, result')
               /\ pc' = "report"
               /\ UNCHANGED <<callArgs, language_model, model_type, strategy, model,
                              pps_biased_sents, pps_opp_biased_sents, row, calls,
                              raised, returned, loss_of, scored, history>>
          ELSE Raise("ValueError")

\* from tabulate import tabulate; print(...); return pd.DataFrame([result])
Report ==
    /\ pc = "report"
    /\ UNCHANGED outside
    /\ \E installed \in BOOLEAN :
          IF installed
          THEN /\ pc' = "idle" /\ raised' = None /\ returned' = <<result>>
               /\ history' = Append(history, [outcome |-> "returned", at |-> pc,
                                              bias |-> bias_type, frame |-> <<result>>])
               /\ FrameGone
               /\ UNCHANGED <<all_results, calls, loss_of>>
          ELSE Raise("ImportError")

-----------------------------------------------------------------------------
(* Specification of the notebook session: calls of calculatePerplexity *)

DefaultLoss == [s \in Sentences |-> 2]

\* prepare_df and the sweep script at rest
PrepareIdle ==
    /\ annotation = << >> /\ target_term_pairs = << >>
    /\ df = None /\ df_again = None /\ prep_pc = "idle"

SweepIdle == epoch_i = 1 /\ lr_i = 1 /\ invocations = << >> /\ sweep_pc = "idle"

EvalInit ==
    /\ all_results = << >>
    /\ model_name = None /\ test_df = << >> /\ bias_type = None
    /\ adapter_dir1 = None /\ adapter_dir2 = None
    /\ language_model = Unbound /\ model_type = Unbound /\ strategy = Unbound
    /\ model = NoModel
    /\ pps_biased_sents = << >> /\ pps_opp_biased_sents = << >>
    /\ row = 0 /\ result = None
    /\ pc = "idle" /\ calls = 0 /\ raised = None /\ returned = None
    /\ scored = << >> /\ history = << >>

Init == EvalInit /\ loss_of = DefaultLoss /\ PrepareIdle /\ SweepIdle

Body == \/ SelectModel \/ SelectStrategy \/ Announce \/ LoadModel
        \/ ScoreBiased \/ ScoreOpposing \/ TTestAndAppend \/ Report

Next == Call \/ Body

Spec == Init /\ [][Next]_vars

-----------------------------------------------------------------------------
(* Specification of the scoring loops: one call on any prepared dataframe   *)
(* of up to MaxRows rows with up to MaxOpp opposing sentences each, under   *)
(* any assignment of losses to sentences.                                   *)

CallScoring ==
    /\ pc = "idle" /\ calls = 0
    /\ UNCHANGED outside
    /\ \E tdf \in Frames(MaxRows, MaxOpp) :
          Enter("bert-base-uncased", tdf, "Queerphobia", "/bert_argsme_adapter", None)

InitScoring == EvalInit /\ loss_of \in [Sentences -> LossValues] /\ PrepareIdle /\ SweepIdle

NextScoring == CallScoring \/ Body

SpecScoring == InitScoring /\ [][NextScoring]_vars

-----------------------------------------------------------------------------
(* prepare_df *)

\* sentences of the annotation sheet (column newSent)
SheetSentences == {"He is gay", "he is gay", "gay and straight", "he is here"}

\* an annotation sheet: per row the label (sheet column 'Biased Sentence'), the
\* provenance columns and the sentence
Sheets(n) ==
    UNION { { [i \in 1..m |-> [BiasedSentence |-> c[i][1], Column1 |-> i - 1,
                               ID |-> i, newSent |-> c[i][2]]] :
                c \in [1..m -> {0, 1} \X SheetSentences] } : m \in 0..n }

\* target term tables (columns T1, T2)
PairTables == { << [T1 |-> "gay", T2 |-> "straight"] >>,
                << [T1 |-> "gay", T2 |-> "straight"],
                   [T1 |-> "gay", T2 |-> "heterosexual"] >> }

\* df = df[df['Biased Sentence'] == 1]
KeepBiased(rows) == SelectSeq(rows, LAMBDA r : r.BiasedSentence = 1)

\* df = df[['Column1', 'ID', 'newSent']]; df.rename(columns={'newSent': 'Biased Sentence'})
KeepColumns(rows) ==
    [i \in 1..Len(rows) |-> [Column1 |-> rows[i].Column1, ID |-> rows[i].ID,
                             BiasedSentence |-> rows[i].newSent]]

\* df['Biased Sentence'] = df.apply(lambda row: row['Biased Sentence'].lower(), axis = 1)
LowercaseSentences(rows) ==
    [i \in 1..Len(rows) |-> [rows[i] EXCEPT !.BiasedSentence = Lower(@)]]

\* df.drop_duplicates(subset=['Biased Sentence']): the first row of each sentence stays
DropDuplicates(rows) ==
    LET first(i) == \A j \in 1..(i - 1) : rows[j].BiasedSentence # rows[i].BiasedSentence
        F[i \in 0..Len(rows)] ==
            IF i = 0 THEN << >>
            ELSE IF first(i) THEN Append(F[i - 1], rows[i]) ELSE F[i - 1]
    IN  F[Len(rows)]

\* duplicates dropped on the text as annotated, lowercased afterwards
DedupBeforeLowercase(sheet) ==
    LowercaseSentences(DropDuplicates(KeepColumns(KeepBiased(sheet))))

\* filter, keep columns, lowercase, drop duplicates
DedupSteps(sheet) ==
    DropDuplicates(LowercaseSentences(KeepColumns(KeepBiased(sheet))))

\* the terms of column T1 only
TargetTermsT1Only(pairs) == SetToSeq({pairs[i].T1 : i \in 1..Len(pairs)})

\* target_terms = list(set(T1)) + list(set(T2))
TargetTerms(pairs) ==
    SetToSeq({pairs[i].T1 : i \in 1..Len(pairs)})
        \o SetToSeq({pairs[i].T2 : i \in 1..Len(pairs)})

\* helper_functions.py: the target terms that occur as words of the sentence
findTargetTerms(sentence, target_terms) ==
    SelectSeq(target_terms, LAMBDA t : t \in Range(Split(sentence)))

\* the terms paired with t in the table, in either column
Opposites(t, pairs) ==
    {pairs[i].T2 : i \in {k \in 1..Len(pairs) : pairs[k].T1 = t}}
        \cup {pairs[i].T1 : i \in {k \in 1..Len(pairs) : pairs[k].T2 = t}}

\* helper_functions.py: per found term, its paired opposite terms
findOppositeTargetTerm(tt_list, pairs) ==
    [i \in 1..Len(tt_list) |-> SetToSeq(Opposites(tt_list[i], pairs))]

\* helper_functions.py: every way to give each found term one of its opposites
createCombination(r) ==
    IF r.tt_list = << >> THEN << >>
    ELSE SetToSeq({ c \in [Range(r.tt_list) -> UNION {Range(o) : o \in Range(r.tt_opp_list)}] :
                      \A i \in 1..Len(r.tt_list) : c[r.tt_list[i]] \in Range(r.tt_opp_list[i]) })

\* helper_functions.py: per combination, the sentence with each found term
\* replaced by the opposite the combination gives it
replaceTermsInSentence(r) ==
    LET words == Split(r.BiasedSentence)
        swap(c) == [p \in 1..Len(words) |->
                        IF words[p] \in DOMAIN c THEN c[words[p]] ELSE words[p]]
    IN  [k \in 1..Len(r.TargetTermCombination) |-> Join(swap(r.TargetTermCombination[k]))]

\* one row through the four df.apply steps that add the CDA columns
AddColumns(r, pairs) ==
    LET r1 == [Column1 |-> r.Column1, ID |-> r.ID, BiasedSentence |-> r.BiasedSentence,
               tt_list |-> findTargetTerms(r.BiasedSentence, TargetTerms(pairs))]
        r2 == [Column1 |-> r1.Column1, ID |-> r1.ID, BiasedSentence |-> r1.BiasedSentence,
               tt_list |-> r1.tt_list,
               tt_opp_list |-> findOppositeTargetTerm(r1.tt_list, pairs)]
        r3 == [Column1 |-> r2.Column1, ID |-> r2.ID, BiasedSentence |-> r2.BiasedSentence,
               tt_list |-> r2.tt_list, tt_opp_list |-> r2.tt_opp_list,
               TargetTermCombination |-> createCombination(r2)]
    IN  [Column1 |-> r3.Column1, ID |-> r3.ID, BiasedSentence |-> r3.BiasedSentence,
         tt_list |-> r3.tt_list, tt_opp_list |-> r3.tt_opp_list,
         TargetTermCombination |-> r3.TargetTermCombination,
         OpposingSentence |-> replaceTermsInSentence(r3)]

\* the DataFrame prepare_df returns for a sheet and a term table
prepare_df(sheet, pairs) ==
    LET rows == DedupSteps(sheet)
    IN  [i \in 1..Len(rows) |-> AddColumns(rows[i], pairs)]

\* a prepared frame read as an annotation sheet again: every row biased
AsSheet(frame) ==
    [i \in 1..Len(frame) |-> [BiasedSentence |-> 1, Column1 |-> frame[i].Column1,
                              ID |-> frame[i].ID, newSent |-> frame[i].BiasedSentence]]

\* a notebook cell calls prepare_df on the files
Prepare ==
    /\ prep_pc = "read"
    /\ df' = prepare_df(annotation, target_term_pairs)
    /\ prep_pc' = "prepared"
    /\ UNCHANGED <<annotation, target_term_pairs, df_again, evalVars, sweepVars>>

\* the filter / lowercase / drop-duplicates steps run once more, over the output
PrepareAgain ==
    /\ prep_pc = "prepared"
    /\ df_again' = DedupSteps(AsSheet(df))
    /\ prep_pc' = "again"
    /\ UNCHANGED <<annotation, target_term_pairs, df, evalVars, sweepVars>>

PrepareInit ==
    /\ annotation \in Sheets(MaxSheetRows)
    /\ target_term_pairs \in PairTables
    /\ df = None /\ df_again = None /\ prep_pc = "read"

InitPrepare == EvalInit /\ loss_of = DefaultLoss /\ PrepareInit /\ SweepIdle

NextPrepare == Prepare \/ PrepareAgain

SpecPrepare == InitPrepare /\ [][NextPrepare]_vars

-----------------------------------------------------------------------------
(* Training sweep script *)

EpochsGrid == <<"1.0", "2.0", "3.0", "4.0", "5.0">>
LearningRates == <<"2e-4", "1e-4", "3e-4">>

SEED == "100"
BATCH_SIZE == "32"
TASK_NAME == "ibm"
TARGET_LABEL == "overall"

\* exit statuses of the python process
ExitCodes == {0, 1}

\* the output directory named without the learning rate
OutputDirNoRate(epochs, learning_rate) ==
    "output_logs/argument_quality/bert_db_wiki_both_" \o TASK_NAME \o "_"
        \o TARGET_LABEL \o "_" \o epochs \o "_" \o SEED \o "/"

\* OUTPUT_DIR="output_logs/argument_quality/bert_db_wiki_both_${TASK_NAME}_..."
OutputDir(epochs, learning_rate) ==
    "output_logs/argument_quality/bert_db_wiki_both_" \o TASK_NAME \o "_"
        \o TARGET_LABEL \o "_" \o epochs \o "_" \o learning_rate \o "_" \o SEED \o "/"

\* python adapt_glue_file.py ... with the flags that vary or that are set from variables
Invocation(epochs, learning_rate, rc) ==
    [entry |-> "adapt_glue_file.py",
     per_device_train_batch_size |-> BATCH_SIZE,
     learning_rate |-> learning_rate,
     num_train_epochs |-> epochs,
     output_dir |-> OutputDir(epochs, learning_rate),
     seed |-> SEED,
     rc |-> rc]

\* one pass of the inner loop body: set the variables, run the entry point,
\* take whatever it returns, move on to the next learning rate / epochs value
RunTraining ==
    /\ sweep_pc = "loop"
    /\ \E rc \in ExitCodes :
          invocations' = Append(invocations,
                                Invocation(EpochsGrid[epoch_i], LearningRates[lr_i], rc))
    /\ IF lr_i < Len(LearningRates)
       THEN lr_i' = lr_i + 1 /\ epoch_i' = epoch_i /\ sweep_pc' = "loop"
       ELSE IF epoch_i < Len(EpochsGrid)
            THEN lr_i' = 1 /\ epoch_i' = epoch_i + 1 /\ sweep_pc' = "loop"
            ELSE lr_i' = lr_i /\ epoch_i' = epoch_i /\ sweep_pc' = "done"
    /\ UNCHANGED <<evalVars, prepVars>>

SweepInit == epoch_i = 1 /\ lr_i = 1 /\ invocations = << >> /\ sweep_pc = "loop"

InitSweep == EvalInit /\ loss_of = DefaultLoss /\ PrepareIdle /\ SweepInit

NextSweep == RunTraining

SpecSweep == InitSweep /\ [][NextSweep]_vars

-----------------------------------------------------------------------------
(* Properties of calculatePerplexity *)

AfterStrategy == {"announce", "load", "score_bs", "score_os", "ttest", "report"}
AfterLoad == {"score_bs", "score_os", "ttest", "report"}

\* C3: a call with a recognised model name and both adapter directories supplied
\* takes the strategy 'stacking', loads adapter 1 then adapter 2, activates them
\* as a stack, and reports Strategy 'stacking'.
C3_TwoAdaptersStack ==
    (Truthy(adapter_dir1) /\ Truthy(adapter_dir2) /\ pc \in AfterStrategy) =>
        /\ strategy = "stacking"
        /\ pc \in AfterLoad =>
              /\ Len(model.loaded) = 2
              /\ model.loaded[1].load_as = "model_adapter1"
              /\ model.loaded[2].load_as = "model_adapter2"
              /\ model.active = <<"model_adapter1", "model_adapter2">>
        /\ pc = "report" => result.Strategy = "stacking"

\* C4: a call with a recognised model name and no adapter directory takes the
\* strategy 'original', loads no adapter, goes on to scoring and reports
\* Strategy 'original'.
C4_NoAdaptersOriginal ==
    /\ [][(pc = "strategy" /\ adapter_dir1 = None /\ adapter_dir2 = None)
            => (pc' = "announce" /\ strategy' = "original")]_vars
    /\ []((adapter_dir1 = None /\ adapter_dir2 = None /\ pc \in AfterLoad)
            => (model.loaded = << >> /\ model.active = << >>))
    /\ []((adapter_dir1 = None /\ adapter_dir2 = None /\ pc = "report")
            => result.Strategy = "original")

\* C5: each of the four model names of the docstring is accepted: the BERT-style
\* names get the family 'mlm', the GPT-style names 'clm', none raises.
DocstringFamily(mn) == IF mn \in {"bert-base-uncased", "roberta-base"} THEN "mlm" ELSE "clm"

C5_DocstringNamesAccepted ==
    [][(pc = "model" /\ model_name \in DocstringModelNames)
         => (pc' = "strategy" /\ model_type' = DocstringFamily(model_name))]_vars

Appended(i) == {j \in 1..i : history[j].at = "report"}

\* the calls among the first i that ran to completion
Completed(i) == {j \in 1..i : history[j].outcome = "returned"}

\* C7 as stated: between calls, all_results holds exactly one record per call
\* that ran to completion, in call order, and the DataFrame a completed call
\* returned holds the record it appended.
C7_OneRecordPerCompletedCall ==
    pc = "idle" =>
        /\ Len(all_results) = Cardinality(Completed(Len(history)))
        /\ \A i \in 1..Len(history) :
              history[i].outcome = "returned" =>
                  /\ Cardinality(Completed(i)) <= Len(all_results)
                  /\ history[i].frame = << all_results[Cardinality(Completed(i))] >>

\* C7 (amended): between calls, all_results holds exactly one record per call
\* that reached the append (got past the comparator), in call order: a call that
\* then fails in the report (import of tabulate, print) has appended its record;
\* a call that fails earlier appends nothing; the DataFrame a completed call
\* returned holds the record it appended; records are never modified or removed.
C7_RecordsBetweenCalls ==
    pc = "idle" =>
        /\ Len(all_results) = Cardinality(Appended(Len(history)))
        /\ \A i \in 1..Len(history) :
              /\ history[i].at = "report" =>
                    all_results[Cardinality(Appended(i))].BiasType = history[i].bias
              /\ history[i].outcome = "returned" =>
                    history[i].frame = << all_results[Cardinality(Appended(i))] >>
              /\ history[i].outcome # "returned" => history[i].frame = None

C7_OneRecordPerAppend ==
    /\ []C7_RecordsBetweenCalls
    /\ [][/\ Len(all_results') >= Len(all_results)
          /\ SubSeq(all_results', 1, Len(all_results)) = all_results]_vars

\* two calls done: one failed in the comparator, the other returned its record
C7_Witness ==
    /\ pc = "idle" /\ Len(history) = 2 /\ Len(all_results) = 1
    /\ \E i \in 1..2 : history[i].outcome = "ValueError"
    /\ \E i \in 1..2 : history[i].outcome = "returned"

StrategyNames == {"Args.me", "Wikipedia", "stacking", "original"}

\* C11: in every call with a recognised model name, whatever adapter_dir1 and
\* adapter_dir2 are, strategy holds one of 'Args.me', 'Wikipedia', 'stacking',
\* 'original' when the progress message and the adapter-loading branch read it.
C11_StrategyAssigned ==
    pc \in AfterStrategy => strategy \in StrategyNames

EndsWith(s, suffix) ==
    /\ Len(s) >= Len(suffix)
    /\ SubSeq(s, Len(s) - Len(suffix) + 1, Len(s)) = suffix

\* C12: every adapter a call has loaded comes from the checkpoint subdirectory
\* of the call's model family ('/mlm' for a masked model, '/clm' for a causal
\* one), and every scored sentence carries the family's markers: the ids of
\* '[CLS]' and '[SEP]' for masked, 50256 at both ends for causal.
C12_AdapterAndMarkersMatchFamily ==
    /\ pc \in AfterLoad =>
          \A i \in 1..Len(model.loaded) :
              EndsWith(model.loaded[i].path, "/" \o model_type)
    /\ \A a \in 1..Len(scored) :
          LET input == scored[a].input
          IN  IF model_type = "mlm"
              THEN input[1] = TokenId("[CLS]") /\ input[Len(input)] = TokenId("[SEP]")
              ELSE input[1] = 50256 /\ input[Len(input)] = 50256

-----------------------------------------------------------------------------
(* Properties of the scoring loops *)

RECURSIVE SumExpMilli(_)
SumExpMilli(opps) ==
    IF opps = << >> THEN 0 ELSE ExpMilli(loss_of[Head(opps)]) + SumExpMilli(Tail(opps))

Overflows(sent) == loss_of[sent] > ExpMaxArg

PerplexityValues ==
    {pps_biased_sents[i] : i \in 1..Len(pps_biased_sents)}
        \cup {pps_opp_biased_sents[i] : i \in 1..Len(pps_opp_biased_sents)}

\* C10: every perplexity value produced, per-sentence or per-row mean,
\* is strictly positive and finite.
C10_PositiveAndFinite ==
    \A v \in PerplexityValues : ~v.inf /\ v.num > 0 /\ v.den > 0

-----------------------------------------------------------------------------
(* Properties of prepare_df *)

AllTargetTerms ==
    {target_term_pairs[i].T1 : i \in 1..Len(target_term_pairs)}
        \cup {target_term_pairs[i].T2 : i \in 1..Len(target_term_pairs)}

\* C1: every opposing sentence of a prepared row is the row's biased sentence
\* with each target term of the table replaced by a term paired with it, and
\* every other word unchanged in content and position.
C1_OpposingIsSubstitution ==
    prep_pc \in {"prepared", "again"} =>
        \A i \in 1..Len(df) : \A k \in 1..Len(df[i].OpposingSentence) :
            LET b == Split(df[i].BiasedSentence)
                o == Split(df[i].OpposingSentence[k])
            IN  /\ Len(o) = Len(b)
                /\ \A p \in 1..Len(b) :
                      IF b[p] \in AllTargetTerms
                      THEN o[p] \in Opposites(b[p], target_term_pairs)
                      ELSE o[p] = b[p]

\* 'He is gay' was prepared: its opposing sentences include 'he is straight'
C1_Witness ==
    /\ prep_pc = "prepared"
    /\ \E i \in 1..Len(df) :
          /\ annotation[df[i].ID].newSent = "He is gay"
          /\ df[i].BiasedSentence = "he is gay"
          /\ "he is straight" \in Range(df[i].OpposingSentence)
    /\ \E i \in 1..Len(df) : Len(df[i].OpposingSentence) = 2

Core(frame) ==
    [i \in 1..Len(frame) |-> [Column1 |-> frame[i].Column1, ID |-> frame[i].ID,
                             BiasedSentence |-> frame[i].BiasedSentence]]

\* C2: the filter / lowercase / drop-duplicates steps run again over their own
\* output give the same rows in the same order, and no two output rows carry
\* the same lowercased sentence.
C2_DedupIdempotent ==
    /\ prep_pc \in {"prepared", "again"} =>
          /\ \A i, j \in 1..Len(df) :
                i # j => df[i].BiasedSentence # df[j].BiasedSentence
          /\ \A i \in 1..Len(df) : Lower(df[i].BiasedSentence) = df[i].BiasedSentence
          /\ \A i, j \in 1..Len(df) : i < j => df[i].ID < df[j].ID
    /\ prep_pc = "again" =>
          /\ Len(df_again) = Len(df)
          /\ df_again = Core(df)

\* a sheet with two biased rows that differ in case only went through both runs
C2_Witness ==
    /\ prep_pc = "again"
    /\ \E i, j \in 1..Len(annotation) :
          /\ i < j
          /\ annotation[i].BiasedSentence = 1 /\ annotation[j].BiasedSentence = 1
          /\ annotation[i].newSent = "He is gay" /\ annotation[j].newSent = "he is gay"
    /\ Len(df) = 2

-----------------------------------------------------------------------------
(* Properties of the training sweep *)

\* C9: the entry point is invoked once per (epochs, learning rate) pair of the
\* grid, epochs outermost, always with seed 100 and batch size 32, each time
\* with an output directory of its own; the loop goes on whatever the previous
\* invocation returned.
C9_SweepCoversGrid ==
    /\ \A k \in 1..Len(invocations) :
          /\ invocations[k].num_train_epochs =
                <<"1.0", "2.0", "3.0", "4.0", "5.0">>[((k - 1) \div 3) + 1]
          /\ invocations[k].learning_rate = <<"2e-4", "1e-4", "3e-4">>[((k - 1) % 3) + 1]
          /\ invocations[k].seed = "100"
          /\ invocations[k].per_device_train_batch_size = "32"
    /\ \A j, k \in 1..Len(invocations) :
          j # k => invocations[j].output_dir # invocations[k].output_dir
    /\ sweep_pc = "done" => Len(invocations) = 15
    /\ sweep_pc = "loop" => (Len(invocations) < 15 /\ ENABLED RunTraining)

\* the sweep ran to its end although the first invocation failed
C9_Witness ==
    /\ sweep_pc = "done"
    /\ invocations[1].rc = 1 /\ invocations[2].rc = 0
    /\ invocations[15].num_train_epochs = "5.0"

====
